---- MODULE Spec2Model ----
(***************************************************************************)
(* The stateless UDP connection id of the tracker (src/udp/connection_id.rs)*)
(*                                                                         *)
(*   get_connection_id(server_secret, remote_address, current_timestamp)   *)
(*   verify_connection_id(connection_id, server_secret, remote_address,    *)
(*                        current_timestamp)                               *)
(*                                                                         *)
(* and the two encoders ByteArray32::from(IpAddr), ByteArray32::from(u16). *)
(*                                                                         *)
(* Byte arrays are sequences of bytes (index 1 is byte 0 of the array).    *)
(* A u64 timestamp is four 16-bit limbs, least significant first, so that  *)
(* `current_timestamp - 120` keeps its 64-bit width.  BLAKE3 is an ideal   *)
(* hash: the digest of an input is the term [blake3 |-> input], so two     *)
(* digests are equal exactly when their inputs are.                        *)
(***************************************************************************)
EXTENDS Integers, Sequences, FiniteSets, TLC

VARIABLES server_secret, held, last, enc, prev, vec, files, loaded

vars == <<server_secret, held, last, enc, prev, vec, files, loaded>>

(***************************************************************************)
(* Bounds of the model.                                                    *)
(***************************************************************************)
\* The timestamps drawn are those of the slots 0..MaxSlot after an epoch.
MaxSlot == 3
\* Octets of the sampled IP addresses vary over 0..MaxOctet.
MaxOctet == 1
\* Ports drawn are 0..MaxPort and a few fixed ones.
MaxPort == 2

(***************************************************************************)
(* u64 arithmetic on four 16-bit limbs.                                    *)
(***************************************************************************)
Limb == 65536

\* The u64 of a natural number below 2^31.
U64(n) == <<n % Limb, n \div Limb, 0, 0>>

\* The natural number of a u64 below 2^31 (the two high limbs are zero).
ToNat(t) == t[1] + Limb * t[2]

\* Whether t - n overflows (n a natural number below 2^16): t < n.
sub_overflows(t, n) == t[4] = 0 /\ t[3] = 0 /\ t[2] = 0 /\ t[1] < n

\* t - n modulo 2^64 (n a natural number below 2^16).
wrapping_sub(t, n) ==
    LET b1 == IF t[1] < n THEN 1 ELSE 0
        b2 == IF t[2] < b1 THEN 1 ELSE 0
        b3 == IF t[3] < b2 THEN 1 ELSE 0
        b4 == IF t[4] < b3 THEN 1 ELSE 0
    IN  << t[1] - n + b1 * Limb,
           t[2] - b1 + b2 * Limb,
           t[3] - b2 + b3 * Limb,
           t[4] - b3 + b4 * Limb >>

\* t / d, integer division of a u64 by a natural number below 2^15.
div_u64(t, d) ==
    LET c4 == t[4]
        c3 == (c4 % d) * Limb + t[3]
        c2 == (c3 % d) * Limb + t[2]
        c1 == (c2 % d) * Limb + t[1]
    IN  << c1 \div d, c2 \div d, c3 \div d, c4 \div d >>

\* u64::to_le_bytes: the eight bytes, least significant first.
to_le_bytes(t) ==
    << t[1] % 256, t[1] \div 256, t[2] % 256, t[2] \div 256,
       t[3] % 256, t[3] \div 256, t[4] % 256, t[4] \div 256 >>

\* u16::to_be_bytes: the two bytes, most significant first.
to_be_bytes(port) == << port \div 256, port % 256 >>

\* n zero bytes: [0u8; n].
Zeros(n) == [i \in 1..n |-> 0]

\* The bitwise OR of two bytes.
RECURSIVE BitOr(_, _)
BitOr(a, b) ==
    IF a = 0 THEN b
    ELSE IF b = 0 THEN a
    ELSE (IF a % 2 = 1 \/ b % 2 = 1 THEN 1 ELSE 0) + 2 * BitOr(a \div 2, b \div 2)

\* ByteArray32 | ByteArray32: the OR of the two arrays, position by position.
ByteArray32_bitor(x, y) == [i \in 1..32 |-> BitOr(x[i], y[i])]

\* blake3::hash as an ideal hash: the digest names its input.
blake3_hash(input) == [blake3 |-> input]

(***************************************************************************)
(* The encoders.                                                           *)
(***************************************************************************)
\* A From<IpAddr> that pads an IPv6 address like an IPv4 one.
peer_ip_as_bytes_one_padding(ip) == Zeros(28) \o ip.octets

\* From<IpAddr>: the Vec built by the match on the address family.
peer_ip_as_bytes(ip) ==
    IF ip.family = "V4"
    THEN Zeros(28) \o ip.octets
    ELSE Zeros(16) \o ip.octets

\* From<IpAddr>: try_into::<[u8; 32]>() fails, and the encoder panics.
From_IpAddr_panics(ip) == Len(peer_ip_as_bytes(ip)) # 32

\* From<IpAddr>: the ByteArray32 returned.
From_IpAddr(ip) == peer_ip_as_bytes(ip)

\* A From<u16> that writes the port with to_le_bytes.
port_as_bytes_little_endian(port) == Zeros(30) \o << port % 256, port \div 256 >>

\* From<u16>: the Vec built from the port.
port_as_bytes(port) == Zeros(30) \o to_be_bytes(port)

\* From<u16>: try_into::<[u8; 32]>() fails, and the encoder panics.
From_u16_panics(port) == Len(port_as_bytes(port)) # 32

\* From<u16>: the ByteArray32 returned.
From_u16(port) == port_as_bytes(port)

\* authentication_string = ByteArray32::from(ip) | ByteArray32::from(port).
authentication_string(remote_address) ==
    ByteArray32_bitor(From_IpAddr(remote_address.ip), From_u16(remote_address.port))

(***************************************************************************)
(* The connection id.                                                      *)
(***************************************************************************)
SlotSeconds == 120

\* TimeBoundPepper::new(secret, timestamp).get_pepper():
\* Hash(secret || (timestamp / 120) as 8 little-endian bytes).
TimeBoundPepper(secret, timestamp) ==
    blake3_hash(secret \o to_le_bytes(div_u64(timestamp, SlotSeconds)))

\* get_connection_id panics: one of the two encoders does.
get_connection_id_panics(remote_address) ==
    \/ From_IpAddr_panics(remote_address.ip)
    \/ From_u16_panics(remote_address.port)

\* A get_connection_id that hashes the timestamp along with the pepper.
get_connection_id_with_timestamp(secret, remote_address, current_timestamp) ==
    LET auth   == authentication_string(remote_address)
        pepper == TimeBoundPepper(secret, current_timestamp)
        input  == <<pepper>> \o to_le_bytes(current_timestamp) \o auth
        hash   == blake3_hash(input)
    IN  [i64_from_le_bytes |-> [first_8_bytes_of |-> hash]]

\* A get_connection_id that leaves the pepper out of the hash input.
get_connection_id_without_pepper(secret, remote_address, current_timestamp) ==
    LET auth   == authentication_string(remote_address)
        input  == auth
        hash   == blake3_hash(input)
    IN  [i64_from_le_bytes |-> [first_8_bytes_of |-> hash]]

\* get_connection_id: the first 8 bytes of Hash(pepper || authentication_string)
\* read as a little-endian i64.  The 32 pepper bytes are the one digest term.
get_connection_id(secret, remote_address, current_timestamp) ==
    LET auth   == authentication_string(remote_address)
        pepper == TimeBoundPepper(secret, current_timestamp)
        input  == <<pepper>> \o auth
        hash   == blake3_hash(input)
    IN  [i64_from_le_bytes |-> [first_8_bytes_of |-> hash]]

\* `current_timestamp - 120` panics: the subtraction overflows in a build
\* with overflow checks (a build without them wraps).
previous_timestamp_panics(current_timestamp, overflow_checks) ==
    overflow_checks /\ sub_overflows(current_timestamp, SlotSeconds)

\* `current_timestamp - 120` where it does not panic.
previous_timestamp(current_timestamp) == wrapping_sub(current_timestamp, SlotSeconds)

\* A verify_connection_id without the arm of the previous slot.
verify_connection_id_current_slot_only(connection_id, secret, remote_address, current_timestamp, overflow_checks) ==
    IF get_connection_id_panics(remote_address) THEN "Panic"
    ELSE IF connection_id = get_connection_id(secret, remote_address, current_timestamp)
    THEN "Ok"
    ELSE "Err"

\* verify_connection_id: the match arms in order; the second guard is
\* evaluated only when the first fails.
verify_connection_id(connection_id, secret, remote_address, current_timestamp, overflow_checks) ==
    IF get_connection_id_panics(remote_address) THEN "Panic"
    ELSE IF connection_id = get_connection_id(secret, remote_address, current_timestamp)
    THEN "Ok"
    ELSE IF previous_timestamp_panics(current_timestamp, overflow_checks) THEN "Panic"
    ELSE IF connection_id
            = get_connection_id(secret, remote_address, previous_timestamp(current_timestamp))
    THEN "Ok"
    ELSE "Err"

\* The timestamps verify_connection_id hands to get_connection_id.
verify_timestamps(connection_id, secret, remote_address, current_timestamp, overflow_checks) ==
    IF get_connection_id_panics(remote_address) THEN {}
    ELSE IF connection_id = get_connection_id(secret, remote_address, current_timestamp)
    THEN {current_timestamp}
    ELSE IF previous_timestamp_panics(current_timestamp, overflow_checks)
    THEN {current_timestamp}
    ELSE {current_timestamp, previous_timestamp(current_timestamp)}

(***************************************************************************)
(* The inputs drawn.                                                       *)
(***************************************************************************)
V4(a, b, c, d) == [family |-> "V4", octets |-> <<a, b, c, d>>]
V6(octets) == [family |-> "V6", octets |-> octets]
SocketAddr(ip, port) == [ip |-> ip, port |-> port]

\* generate_server_secret_for_testing, and a second secret.
Secrets == { Zeros(32), [i \in 1..32 |-> i] }

\* Second 0, the first and the last second of each slot.
Offsets == {0, 1, SlotSeconds - 1}
\* The Unix epoch, and 01-01-2000 00:00:00 (the `now` of the tests).
Epochs == {0, 946684800}
Times == { U64(e + s * SlotSeconds + o) : e \in Epochs, s \in 0..MaxSlot, o \in Offsets }

\* The clients of the protocol model: the addresses of the tests, and
\* addresses whose low bytes meet the port's.
ClientAddrs ==
    { SocketAddr(V4(127, 0, 0, 1), 8080),
      SocketAddr(V4(127, 0, 0, 1), 1),
      SocketAddr(V4(127, 0, 0, 1), 2),
      SocketAddr(V4(127, 0, 0, 2), 1),
      SocketAddr(V4(0, 0, 0, 1), 0),
      SocketAddr(V4(0, 0, 0, 0), 1),
      SocketAddr(V6(Zeros(15) \o <<1>>), 1),
      SocketAddr(V6(<<32, 1, 13, 184>> \o Zeros(11) \o <<1>>), 65535) }

NoCall == [op |-> "none"]

\* The paths load_from_file is called with: the config.toml of its message,
\* the same name with another extension and with none.
ConfigPaths ==
    { [stem |-> "config", extension |-> "toml"],
      [stem |-> "config", extension |-> "conf"],
      [stem |-> "config", extension |-> ""] }

\* No file at a path.
Absent == [kind |-> "absent"]

(***************************************************************************)
(* The protocol model: a client connects (the tracker issues an id), and   *)
(* a client announces with the id held (the tracker verifies it).          *)
(*   held: the id the client holds, with the address and time of its issue *)
(*   last: the tracker's last call, with its inputs and its result         *)
(***************************************************************************)
Init ==
    /\ server_secret \in Secrets
    /\ held = NoCall
    /\ last = NoCall
    /\ enc = NoCall
    /\ prev = NoCall
    /\ vec = NoCall
    /\ files = [p \in ConfigPaths |-> Absent]
    /\ loaded = NoCall

\* A connect request from remote_address at `now`: get_connection_id.
\* The first id issued is the one the client holds; a second connect
\* request leaves it a second id to compare.
Connect(remote_address, now) ==
    LET call == IF get_connection_id_panics(remote_address)
                THEN [op |-> "panic", addr |-> remote_address, now |-> now]
                ELSE [op |-> "connect", addr |-> remote_address, now |-> now,
                      cid |-> get_connection_id(server_secret, remote_address, now)]
    IN  /\ last = held
        /\ last' = call
        /\ held' = IF held.op = "none" /\ call.op = "connect" THEN call ELSE held
        /\ UNCHANGED <<server_secret, enc, prev, vec, files, loaded>>

\* An announce from remote_address at `now` presenting the id held:
\* verify_connection_id.
Announce(remote_address, now, overflow_checks) ==
    /\ held.op = "connect"
    /\ last = held
    /\ last' = [op |-> "announce", addr |-> remote_address, now |-> now,
                cid |-> held.cid,
                result |-> verify_connection_id(held.cid, server_secret,
                                                remote_address, now, overflow_checks),
                compared |-> verify_timestamps(held.cid, server_secret,
                                               remote_address, now, overflow_checks)]
    /\ UNCHANGED <<server_secret, held, enc, prev, vec, files, loaded>>

\* The client drops the id it holds and starts over.
Forget ==
    /\ last.op # "none"
    /\ held' = NoCall
    /\ last' = NoCall
    /\ UNCHANGED <<server_secret, enc, prev, vec, files, loaded>>

\* The builds to tell apart at `now`: they differ only where now - 120 overflows.
Builds(now) == IF sub_overflows(now, SlotSeconds) THEN BOOLEAN ELSE {FALSE}

Next ==
    \/ \E a \in ClientAddrs, t \in Times : Connect(a, t)
    \/ \E a \in ClientAddrs, t \in Times : \E oc \in Builds(t) : Announce(a, t, oc)
    \/ Forget

Spec == Init /\ [][Next]_vars

(***************************************************************************)
(* The encoder model: the authentication string of one endpoint, then of a *)
(* second one.                                                             *)
(*   enc:  the last endpoint encoded, with the blocks built for it         *)
(*   prev: the endpoint encoded before it                                  *)
(***************************************************************************)
SampleOctets == 0..MaxOctet
SampleV4 == { V4(a, 0, c, d) : a \in {0, 127}, c \in SampleOctets, d \in SampleOctets }
\* ::a.0.c.d (IPv4-compatible) and ::ffff:a.0.c.d (IPv4-mapped).
SampleV6 ==
    { V6(p \o <<a, 0, c, d>>) : p \in {Zeros(12), Zeros(10) \o <<255, 255>>},
                                a \in {0, 127}, c \in SampleOctets, d \in SampleOctets }
SamplePorts == (0..MaxPort) \cup {256, 8080, 65535}
Endpoints == { SocketAddr(ip, port) : ip \in SampleV4 \cup SampleV6, port \in SamplePorts }

\* Lines 15-17 of get_connection_id for one endpoint.
Encode(remote_address) ==
    /\ prev.op = "none"
    /\ prev' = enc
    /\ enc' = IF get_connection_id_panics(remote_address)
              THEN [op |-> "panic", addr |-> remote_address]
              ELSE [op |-> "encode", addr |-> remote_address,
                    ip_block |-> From_IpAddr(remote_address.ip),
                    port_block |-> From_u16(remote_address.port),
                    auth |-> authentication_string(remote_address)]
    /\ UNCHANGED <<server_secret, held, last, vec, files, loaded>>

\* Start over with two other endpoints.
EncForget ==
    /\ prev.op # "none"
    /\ enc' = NoCall
    /\ prev' = NoCall
    /\ UNCHANGED <<server_secret, held, last, vec, files, loaded>>

NextEnc ==
    \/ \E e \in Endpoints : Encode(e)
    \/ EncForget

EncSpec == Init /\ [][NextEnc]_vars

(***************************************************************************)
(* BLAKE3 of an input of at most 64 bytes (one block of one chunk), on     *)
(* 32-bit words held as two 16-bit halves, low half first.                 *)
(***************************************************************************)
Word(hi, lo) == <<lo, hi>>

RECURSIVE BitXor(_, _)
BitXor(a, b) ==
    IF a = 0 THEN b
    ELSE IF b = 0 THEN a
    ELSE (((a % 2) + (b % 2)) % 2) + 2 * BitXor(a \div 2, b \div 2)

xor32(v, w) == << BitXor(v[1], w[1]), BitXor(v[2], w[2]) >>

\* Addition modulo 2^32.
add32(v, w) ==
    LET lo == v[1] + w[1]
    IN  << lo % Limb, (v[2] + w[2] + (lo \div Limb)) % Limb >>

\* Rotation to the right by r bits, r = 16 or r < 16.
rotr32(v, r) ==
    IF r = 16 THEN << v[2], v[1] >>
    ELSE LET p == 2 ^ r
             q == 2 ^ (16 - r)
         IN  << (v[1] \div p) + (v[2] % p) * q, (v[2] \div p) + (v[1] % p) * q >>

\* 6A09E667 BB67AE85 3C6EF372 A54FF53A 510E527F 9B05688C 1F83D9AB 5BE0CD19
IV == << Word(27145, 58983), Word(47975, 44677), Word(15470, 62322), Word(42319, 62778),
         Word(20750, 21119), Word(39685, 26764), Word(8067, 55723), Word(23520, 52505) >>

MSG_PERMUTATION == << 2, 6, 3, 10, 7, 0, 4, 13, 1, 11, 12, 5, 9, 14, 15, 8 >>

\* TLC evaluates a definition of a LET anew at each use.  A value that
\* is used more than once is bound by a set instead: The({f(x) : x \in {e}})
\* evaluates e once.
The(singleton) == CHOOSE v \in singleton : TRUE

\* Half of the quarter round on the words a, b, c, d: <<a', b', c', d'>>.
half_g(a, b, c, d, m, r1, r2) ==
    LET a1 == add32(add32(a, b), m)
        d1 == rotr32(xor32(d, a1), r1)
        c1 == add32(c, d1)
        b1 == rotr32(xor32(b, c1), r2)
    IN  << a1, b1, c1, d1 >>

\* The quarter round on the words a, b, c, d of the state.
g(s, a, b, c, d, mx, my) ==
    The({ [s EXCEPT ![a] = h2[1], ![b] = h2[2], ![c] = h2[3], ![d] = h2[4]] :
          h2 \in { half_g(h1[1], h1[2], h1[3], h1[4], my, 8, 7) :
                   h1 \in { half_g(s[a], s[b], s[c], s[d], mx, 16, 12) } } })

\* The words of the state each quarter round of a round mixes: the four
\* columns, then the four diagonals.
G_INDEXES ==
    << <<1, 5, 9, 13>>, <<2, 6, 10, 14>>, <<3, 7, 11, 15>>, <<4, 8, 12, 16>>,
       <<1, 6, 11, 16>>, <<2, 7, 12, 13>>, <<3, 8, 9, 14>>, <<4, 5, 10, 15>> >>

\* The quarter rounds k..8 of one round.
RECURSIVE round_from(_, _, _)
round_from(s, m, k) ==
    IF k > 8 THEN s
    ELSE The({ round_from(t, m, k + 1) :
               t \in { g(s, G_INDEXES[k][1], G_INDEXES[k][2], G_INDEXES[k][3],
                         G_INDEXES[k][4], m[2 * k - 1], m[2 * k]) } })

round(s, m) == round_from(s, m, 1)

permute(m) ==
    << m[MSG_PERMUTATION[1] + 1], m[MSG_PERMUTATION[2] + 1], m[MSG_PERMUTATION[3] + 1],
       m[MSG_PERMUTATION[4] + 1], m[MSG_PERMUTATION[5] + 1], m[MSG_PERMUTATION[6] + 1],
       m[MSG_PERMUTATION[7] + 1], m[MSG_PERMUTATION[8] + 1], m[MSG_PERMUTATION[9] + 1],
       m[MSG_PERMUTATION[10] + 1], m[MSG_PERMUTATION[11] + 1], m[MSG_PERMUTATION[12] + 1],
       m[MSG_PERMUTATION[13] + 1], m[MSG_PERMUTATION[14] + 1], m[MSG_PERMUTATION[15] + 1],
       m[MSG_PERMUTATION[16] + 1] >>

\* n rounds, the message words permuted between them.
RECURSIVE rounds(_, _, _)
rounds(s, m, n) ==
    IF n = 1 THEN round(s, m)
    ELSE The({ rounds(s2, m2, n - 1) : s2 \in {round(s, m)}, m2 \in {permute(m)} })

\* The first 8 output words of the compression function, block counter 0.
compress(chaining_value, m, block_len, flags) ==
    The({ << xor32(s[1], s[9]), xor32(s[2], s[10]), xor32(s[3], s[11]), xor32(s[4], s[12]),
             xor32(s[5], s[13]), xor32(s[6], s[14]), xor32(s[7], s[15]), xor32(s[8], s[16]) >> :
          s \in { rounds(chaining_value \o SubSeq(IV, 1, 4)
                         \o << Word(0, 0), Word(0, 0), Word(0, block_len), Word(0, flags) >>,
                         m, 7) } })

\* Word i of a 64-byte block, little-endian.
le_word(block, i) ==
    << block[4 * i - 3] + 256 * block[4 * i - 2], block[4 * i - 1] + 256 * block[4 * i] >>

\* The 16 little-endian words of a 64-byte block.
words_from_le_bytes(block) ==
    << le_word(block, 1), le_word(block, 2), le_word(block, 3), le_word(block, 4),
       le_word(block, 5), le_word(block, 6), le_word(block, 7), le_word(block, 8),
       le_word(block, 9), le_word(block, 10), le_word(block, 11), le_word(block, 12),
       le_word(block, 13), le_word(block, 14), le_word(block, 15), le_word(block, 16) >>

\* The 4 little-endian bytes of a word.
word_bytes(w) == << w[1] % 256, w[1] \div 256, w[2] % 256, w[2] \div 256 >>

\* blake3::hash(input).as_bytes() for Len(input) <= 64: the block padded
\* with zeros, flags CHUNK_START | CHUNK_END | ROOT.
blake3_digest(input) ==
    The({ word_bytes(out[1]) \o word_bytes(out[2]) \o word_bytes(out[3])
          \o word_bytes(out[4]) \o word_bytes(out[5]) \o word_bytes(out[6])
          \o word_bytes(out[7]) \o word_bytes(out[8]) :
          out \in { compress(IV, m, len, 11) :
                    m \in { words_from_le_bytes(block) :
                            block \in { input \o Zeros(64 - Len(input)) } },
                    len \in { Len(input) } } })

(***************************************************************************)
(* The connection id as a number: get_connection_id with the digests       *)
(* computed.                                                               *)
(***************************************************************************)
\* TimeBoundPepper::new(secret, timestamp).get_pepper(), the 32 bytes.
TimeBoundPepper_bytes(secret, timestamp) ==
    blake3_digest(secret \o to_le_bytes(div_u64(timestamp, SlotSeconds)))

\* i64::from_le_bytes: the 64 bits as four 16-bit limbs, low limb first.
i64_from_le_bytes(b) ==
    << b[1] + 256 * b[2], b[3] + 256 * b[4], b[5] + 256 * b[6], b[7] + 256 * b[8] >>

\* get_connection_id, the i64 returned.
get_connection_id_value(secret, remote_address, current_timestamp) ==
    LET auth   == authentication_string(remote_address)
        pepper == TimeBoundPepper_bytes(secret, current_timestamp)
        input  == pepper \o auth
        hash   == blake3_digest(input)
        truncated_hash == SubSeq(hash, 1, 8)
    IN  i64_from_le_bytes(truncated_hash)

(***************************************************************************)
(* The test vector model: one id computed to the last bit.                 *)
(*   vec: the call made, with its inputs and the id returned               *)
(***************************************************************************)
PreCalculate(remote_address, now) ==
    /\ vec.op = "none"
    /\ ~get_connection_id_panics(remote_address)
    /\ vec' = [op |-> "connect", secret |-> server_secret, addr |-> remote_address,
               now |-> now,
               cid |-> get_connection_id_value(server_secret, remote_address, now)]
    /\ UNCHANGED <<server_secret, held, last, enc, prev, files, loaded>>

\* Start over with another input.
VecForget ==
    /\ vec.op # "none"
    /\ vec' = NoCall
    /\ UNCHANGED <<server_secret, held, last, enc, prev, files, loaded>>

NextVec ==
    \/ \E a \in ClientAddrs, t \in Times : PreCalculate(a, t)
    \/ VecForget

VecSpec == Init /\ [][NextVec]_vars

(***************************************************************************)
(* The configuration file: Configuration::default, save_to_file and        *)
(* load_from_file.  A TOML document is the table it denotes: a function    *)
(* from the keys it has to their values.                                   *)
(***************************************************************************)
\* Option<T>: None and Some(v).
None == << >>
Some(v) == << v >>

\* Configuration::default().
Configuration_default ==
    [ log_level |-> Some("info"),
      mode |-> "public",
      db_driver |-> "Sqlite3",
      db_path |-> "data.db",
      announce_interval |-> 120,
      min_announce_interval |-> 120,
      max_peer_timeout |-> 900,
      on_reverse_proxy |-> FALSE,
      external_ipv4 |-> None,
      replace_local_peer_ip_with_external_ip |-> FALSE,
      tracker_usage_statistics |-> TRUE,
      persistent_torrent_completed_stat |-> FALSE,
      inactive_peer_cleanup_interval |-> 600,
      remove_peerless_torrents |-> TRUE,
      udp_trackers |-> << [ enabled |-> FALSE, bind_address |-> "0.0.0.0:6969" ] >>,
      http_trackers |-> << [ enabled |-> FALSE, bind_address |-> "0.0.0.0:6969",
                             ssl_enabled |-> FALSE,
                             ssl_cert_path |-> None, ssl_key_path |-> None ] >>,
      http_api |-> [ enabled |-> TRUE, bind_address |-> "127.0.0.1:1212",
                     access_tokens |-> [ admin |-> "MyAccessToken" ] ] ]

\* NoneAsEmptyString: None is written as the empty string, and read back
\* from it.
NoneAsEmptyString_serialize(option) == IF option = None THEN "" ELSE option[1]
NoneAsEmptyString_deserialize(string) == IF string = "" THEN None ELSE Some(string)

\* A plain Option field: the key is written only for Some, and a key that is
\* missing reads as None.
option_serialize(key, option) == IF option = None THEN << >> ELSE key :> option[1]
option_deserialize(table, key) == IF key \in DOMAIN table THEN Some(table[key]) ELSE None

\* The tables of the fields of UdpTrackerConfig, HttpTrackerConfig and
\* HttpApiConfig.
UdpTrackerConfig_serialize(t) ==
    [ enabled |-> t.enabled, bind_address |-> t.bind_address ]
HttpTrackerConfig_serialize(t) ==
    [ enabled |-> t.enabled, bind_address |-> t.bind_address,
      ssl_enabled |-> t.ssl_enabled,
      ssl_cert_path |-> NoneAsEmptyString_serialize(t.ssl_cert_path),
      ssl_key_path |-> NoneAsEmptyString_serialize(t.ssl_key_path) ]
HttpApiConfig_serialize(a) ==
    [ enabled |-> a.enabled, bind_address |-> a.bind_address,
      access_tokens |-> a.access_tokens ]

\* toml::to_string(self): the document of a Configuration.
toml_to_string(self) ==
    option_serialize("log_level", self.log_level)
    @@ option_serialize("external_ipv4", self.external_ipv4)
    @@ [ mode |-> self.mode,
         db_driver |-> self.db_driver,
         db_path |-> self.db_path,
         announce_interval |-> self.announce_interval,
         min_announce_interval |-> self.min_announce_interval,
         max_peer_timeout |-> self.max_peer_timeout,
         on_reverse_proxy |-> self.on_reverse_proxy,
         replace_local_peer_ip_with_external_ip |->
             self.replace_local_peer_ip_with_external_ip,
         tracker_usage_statistics |-> self.tracker_usage_statistics,
         persistent_torrent_completed_stat |-> self.persistent_torrent_completed_stat,
         inactive_peer_cleanup_interval |-> self.inactive_peer_cleanup_interval,
         remove_peerless_torrents |-> self.remove_peerless_torrents,
         udp_trackers |-> [ i \in DOMAIN self.udp_trackers |->
                                UdpTrackerConfig_serialize(self.udp_trackers[i]) ],
         http_trackers |-> [ i \in DOMAIN self.http_trackers |->
                                 HttpTrackerConfig_serialize(self.http_trackers[i]) ],
         http_api |-> HttpApiConfig_serialize(self.http_api) ]

\* The keys a document must have: the fields that are not a plain Option.
UdpTrackerConfig_fields == { "enabled", "bind_address" }
HttpTrackerConfig_fields ==
    { "enabled", "bind_address", "ssl_enabled", "ssl_cert_path", "ssl_key_path" }
HttpApiConfig_fields == { "enabled", "bind_address", "access_tokens" }
Configuration_fields ==
    { "mode", "db_driver", "db_path", "announce_interval", "min_announce_interval",
      "max_peer_timeout", "on_reverse_proxy", "replace_local_peer_ip_with_external_ip",
      "tracker_usage_statistics", "persistent_torrent_completed_stat",
      "inactive_peer_cleanup_interval", "remove_peerless_torrents",
      "udp_trackers", "http_trackers", "http_api" }

UdpTrackerConfig_deserialize(t) ==
    [ enabled |-> t.enabled, bind_address |-> t.bind_address ]
HttpTrackerConfig_deserialize(t) ==
    [ enabled |-> t.enabled, bind_address |-> t.bind_address,
      ssl_enabled |-> t.ssl_enabled,
      ssl_cert_path |-> NoneAsEmptyString_deserialize(t.ssl_cert_path),
      ssl_key_path |-> NoneAsEmptyString_deserialize(t.ssl_key_path) ]
HttpApiConfig_deserialize(a) ==
    [ enabled |-> a.enabled, bind_address |-> a.bind_address,
      access_tokens |-> a.access_tokens ]

\* Some field of a Configuration is missing from the table.
missing_field(table) ==
    \/ ~(Configuration_fields \subseteq DOMAIN table)
    \/ \E i \in DOMAIN table.udp_trackers :
           ~(UdpTrackerConfig_fields \subseteq DOMAIN table.udp_trackers[i])
    \/ \E i \in DOMAIN table.http_trackers :
           ~(HttpTrackerConfig_fields \subseteq DOMAIN table.http_trackers[i])
    \/ ~(HttpApiConfig_fields \subseteq DOMAIN table.http_api)

\* config.try_into::<Configuration>(), with its error mapped to a message.
try_into(table) ==
    IF missing_field(table) THEN [ result |-> "Err", value |-> None ]
    ELSE [ result |-> "Ok",
           value |-> Some(
             [ log_level |-> option_deserialize(table, "log_level"),
               mode |-> table.mode,
               db_driver |-> table.db_driver,
               db_path |-> table.db_path,
               announce_interval |-> table.announce_interval,
               min_announce_interval |-> table.min_announce_interval,
               max_peer_timeout |-> table.max_peer_timeout,
               on_reverse_proxy |-> table.on_reverse_proxy,
               external_ipv4 |-> option_deserialize(table, "external_ipv4"),
               replace_local_peer_ip_with_external_ip |->
                   table.replace_local_peer_ip_with_external_ip,
               tracker_usage_statistics |-> table.tracker_usage_statistics,
               persistent_torrent_completed_stat |->
                   table.persistent_torrent_completed_stat,
               inactive_peer_cleanup_interval |-> table.inactive_peer_cleanup_interval,
               remove_peerless_torrents |-> table.remove_peerless_torrents,
               udp_trackers |-> [ i \in DOMAIN table.udp_trackers |->
                                      UdpTrackerConfig_deserialize(table.udp_trackers[i]) ],
               http_trackers |-> [ i \in DOMAIN table.http_trackers |->
                                       HttpTrackerConfig_deserialize(table.http_trackers[i]) ],
               http_api |-> HttpApiConfig_deserialize(table.http_api) ]) ]

\* What a path holds: nothing, a TOML document, or a text that is not one.
TomlFile(table) == [ kind |-> "toml", table |-> table ]
NotToml == [ kind |-> "text" ]

\* Path::new(path).exists().
Path_exists(fs, path) == fs[path].kind # "absent"

\* The extensions File::with_name knows a format for.
ALL_EXTENSIONS ==
    [ toml |-> { "toml" }, json |-> { "json" }, yaml |-> { "yaml", "yml" },
      hjson |-> { "hjson" }, ini |-> { "ini" } ]

\* File::with_name(path) of an existing file: its format is the one its
\* extension is registered for, and there is none for another extension.
File_with_name(path) ==
    IF \E format \in DOMAIN ALL_EXTENSIONS : path.extension \in ALL_EXTENSIONS[format]
    THEN Some(CHOOSE format \in DOMAIN ALL_EXTENSIONS :
                  path.extension \in ALL_EXTENSIONS[format])
    ELSE None

\* config.merge(File::with_name(path)): the table of the file, read in the
\* format of its extension.
merge(fs, path) ==
    IF File_with_name(path) # Some("toml") \/ fs[path].kind # "toml"
    THEN [ result |-> "Err" ]
    ELSE [ result |-> "Ok", table |-> fs[path].table ]

\* fs::write(path, contents): write_ok is whether the file system lets it.
fs_write(fs, path, contents, write_ok) ==
    IF write_ok THEN [ result |-> "Ok", files |-> [ fs EXCEPT ![path] = contents ] ]
    ELSE [ result |-> "Err", files |-> fs ]

\* self.save_to_file(path).
save_to_file(self, fs, path, write_ok) ==
    fs_write(fs, path, TomlFile(toml_to_string(self)), write_ok)

\* load_from_file that hands the default configuration out after writing it.
load_from_file_returning_default(fs, path, write_ok) ==
    IF Path_exists(fs, path)
    THEN IF merge(fs, path).result = "Err"
         THEN [ result |-> "Err", value |-> None, files |-> fs ]
         ELSE [ result |-> try_into(merge(fs, path).table).result,
                value |-> try_into(merge(fs, path).table).value,
                files |-> fs ]
    ELSE [ result |-> "Ok", value |-> Some(Configuration_default),
           files |-> save_to_file(Configuration_default, fs, path, write_ok).files ]

\* Configuration::load_from_file(path): its result, and the files it leaves.
load_from_file(fs, path, write_ok) ==
    IF Path_exists(fs, path)
    THEN IF merge(fs, path).result = "Err"
         THEN [ result |-> "Err", value |-> None, files |-> fs ]
         ELSE [ result |-> try_into(merge(fs, path).table).result,
                value |-> try_into(merge(fs, path).table).value,
                files |-> fs ]
    ELSE [ result |-> "Err", value |-> None,
           files |-> save_to_file(Configuration_default, fs, path, write_ok).files ]

\* The document of the default configuration, as the tests spell it.
default_config_toml ==
    [ log_level |-> "info",
      mode |-> "public",
      db_driver |-> "Sqlite3",
      db_path |-> "data.db",
      announce_interval |-> 120,
      min_announce_interval |-> 120,
      max_peer_timeout |-> 900,
      on_reverse_proxy |-> FALSE,
      replace_local_peer_ip_with_external_ip |-> FALSE,
      tracker_usage_statistics |-> TRUE,
      persistent_torrent_completed_stat |-> FALSE,
      inactive_peer_cleanup_interval |-> 600,
      remove_peerless_torrents |-> TRUE,
      udp_trackers |-> << [ enabled |-> FALSE, bind_address |-> "0.0.0.0:6969" ] >>,
      http_trackers |-> << [ enabled |-> FALSE, bind_address |-> "0.0.0.0:6969",
                             ssl_enabled |-> FALSE,
                             ssl_cert_path |-> "", ssl_key_path |-> "" ] >>,
      http_api |-> [ enabled |-> TRUE, bind_address |-> "127.0.0.1:1212",
                     access_tokens |-> [ admin |-> "MyAccessToken" ] ] ]

\* A table without one of its keys.
without(table, key) == [ k \in DOMAIN table \ { key } |-> table[k] ]

\* The files an operator leaves at a path: the default document, the
\* document after an edit (a key taken out, a value changed), and a text
\* that is not TOML.
SampleFiles ==
    { TomlFile(default_config_toml),
      TomlFile(without(default_config_toml, "log_level")),
      TomlFile(without(default_config_toml, "db_path")),
      TomlFile([ default_config_toml EXCEPT !.announce_interval = 60 ]),
      TomlFile(("external_ipv4" :> "10.0.0.1") @@ default_config_toml),
      NotToml }

\* A call of load_from_file, with the call before it.
LoadFromFile(path, write_ok) ==
    /\ files' = load_from_file(files, path, write_ok).files
    /\ loaded' = [ op |-> "load_from_file", path |-> path, before |-> files[path],
                   write_ok |-> write_ok,
                   result |-> load_from_file(files, path, write_ok).result,
                   value |-> load_from_file(files, path, write_ok).value,
                   previous |-> IF loaded.op = "none" THEN NoCall
                                ELSE [ op |-> loaded.op, path |-> loaded.path,
                                       before |-> loaded.before,
                                       result |-> loaded.result ] ]
    /\ UNCHANGED <<server_secret, held, last, enc, prev, vec>>

\* The operator writes a file; the calls before it are history.
WriteFile(path, contents) ==
    /\ files[path] # contents
    /\ files' = [ files EXCEPT ![path] = contents ]
    /\ loaded' = NoCall
    /\ UNCHANGED <<server_secret, held, last, enc, prev, vec>>

NextConfig ==
    \/ \E path \in ConfigPaths, write_ok \in BOOLEAN : LoadFromFile(path, write_ok)
    \/ \E path \in ConfigPaths, contents \in SampleFiles : WriteFile(path, contents)

ConfigSpec == Init /\ [][NextConfig]_vars

(***************************************************************************)
(* The claims.                                                             *)
(***************************************************************************)
\* Bit j of byte x.
Bit(x, j) == (x \div (2 ^ j)) % 2

\* The client announces from the address its id was issued to.
SameEndpointAnnounce == last.op = "announce" /\ last.addr = held.addr

\* Seconds from the issue of the id held to the last call.
Delay == ToNat(last.now) - ToNat(held.now)

\* Slots from the issue of the id held to the last call.
SlotsApart == ToNat(last.now) \div 120 - ToNat(held.now) \div 120

\* C1: an id issued to E at T and verified for E at T + k (k >= 0) is Ok
\* for k < 120, Err for k >= 240, and for k in [120, 240) Ok exactly when
\* (T + k) / 120 - T / 120 <= 1.
C1_VerifyWindow ==
    (SameEndpointAnnounce /\ Delay >= 0) =>
        /\ Delay < 120 => last.result = "Ok"
        /\ Delay >= 240 => last.result = "Err"
        /\ (Delay >= 120 /\ Delay < 240) => (last.result = "Ok" <=> SlotsApart <= 1)

\* An id honoured more than 120 seconds after its issue, and one refused
\* less than 240 seconds after it.
C1_Witness ==
    /\ SameEndpointAnnounce
    /\ \/ Delay = 239 /\ last.result = "Ok"
       \/ Delay = 121 /\ last.result = "Err"

\* C2: at now < 120 verify_connection_id compares the id with issue(now) and
\* issue(0) only (now - 120 saturates at zero), and returns Ok or Err.
C2_SaturatesBelowOneSlot ==
    (last.op = "announce" /\ ToNat(last.now) < 120) =>
        /\ last.result \in {"Ok", "Err"}
        /\ last.compared \subseteq {last.now, U64(0)}

\* C3: an id issued to E1 at T and verified for E2 # E1 at T is Err.
C3_EndpointMismatchRejected ==
    (last.op = "announce" /\ last.addr # held.addr /\ last.now = held.now) =>
        last.result = "Err"

\* C4: two distinct endpoints never have the same authentication block.
C4_AuthBlockCollisionFree ==
    (prev.op = "encode" /\ enc.op = "encode" /\ prev.addr # enc.addr) =>
        prev.auth # enc.auth

\* C5: verify_connection_id returns Ok exactly when the id is that of the
\* current slot or of the one before it; an id of slot(now) - 2 or earlier,
\* or of a slot after slot(now), is Err.
C5_OnlyCurrentAndPreviousSlot ==
    last.op = "announce" =>
        LET now      == ToNat(last.now)
            previous == U64(IF now < 120 THEN 0 ELSE now - 120)
        IN  /\ last.result = "Ok" <=>
                   last.cid \in { get_connection_id(server_secret, last.addr, last.now),
                                  get_connection_id(server_secret, last.addr, previous) }
            /\ (SlotsApart >= 2 \/ SlotsApart < 0) => last.result = "Err"

\* The client holds one id and was issued a second one for the same address.
SecondIdSameEndpoint ==
    /\ last.op = "connect"
    /\ held.op = "connect"
    /\ last.addr = held.addr
    /\ last.now # held.now

\* C6: two ids issued to one endpoint at timestamps of one slot are equal.
C6_IntraSlotStable ==
    (SecondIdSameEndpoint /\ SlotsApart = 0) => last.cid = held.cid

\* A second id issued 119 seconds after the first, in the same slot.
C6_Witness ==
    SecondIdSameEndpoint /\ SlotsApart = 0 /\ Delay = 119 /\ last.cid = held.cid

\* C7: the ids issued to one endpoint at T and at T + 120 differ.
C7_InterSlotChange ==
    (SecondIdSameEndpoint /\ Delay = 120) => last.cid # held.cid

\* A second id issued 120 seconds after the first.
C7_Witness ==
    SecondIdSameEndpoint /\ Delay = 120 /\ last.cid # held.cid

\* C8: distinct ports have distinct port blocks, and distinct IP addresses
\* (of either family) have distinct IP blocks.
C8_EncodersInjective ==
    (prev.op = "encode" /\ enc.op = "encode") =>
        /\ prev.addr.port # enc.addr.port => prev.port_block # enc.port_block
        /\ prev.addr.ip # enc.addr.ip => prev.ip_block # enc.ip_block

\* C9: the IP block is 28 zero bytes and the 4 octets (IPv4) or 16 zero bytes
\* and the 16 octets (IPv6); the port block is 30 zero bytes and the port's
\* two bytes, high byte first; the authentication block is their bitwise OR,
\* so its bytes 0..15 are zero and its bytes 0..29 are the IP block's.
C9_ReferenceEncoding ==
    enc.op = "encode" =>
        LET ip   == enc.addr.ip
            port == enc.addr.port
            pad  == IF ip.family = "V4" THEN 28 ELSE 16
        IN  /\ DOMAIN enc.ip_block = 1..32
            /\ DOMAIN enc.port_block = 1..32
            /\ DOMAIN enc.auth = 1..32
            /\ \A i \in 1..32 :
                   enc.ip_block[i] = IF i <= pad THEN 0 ELSE ip.octets[i - pad]
            /\ \A i \in 1..30 : enc.port_block[i] = 0
            /\ enc.port_block[31] \in 0..255
            /\ enc.port_block[32] \in 0..255
            /\ enc.port_block[31] * 256 + enc.port_block[32] = port
            /\ \A i \in 1..32 :
                   /\ enc.auth[i] \in 0..255
                   /\ \A j \in 0..7 :
                          Bit(enc.auth[i], j) = 1 <=>
                              (Bit(enc.ip_block[i], j) = 1 \/ Bit(enc.port_block[i], j) = 1)
            /\ \A i \in 1..16 : enc.auth[i] = 0
            /\ \A i \in 1..30 : enc.auth[i] = enc.ip_block[i]

\* An IPv6 endpoint whose last two octets and port bytes are all non-zero
\* and differ.
C9_Witness ==
    /\ enc.op = "encode"
    /\ enc.addr.ip.family = "V6"
    /\ enc.addr.port = 8080
    /\ enc.ip_block[31] = 1
    /\ enc.ip_block[32] = 1
    /\ enc.auth[31] = 31
    /\ enc.auth[32] = 145

\* C10: get_connection_id returns an id for every endpoint and timestamp;
\* neither encoder panics.
C10_GetConnectionIdTotal ==
    /\ last.op # "panic"
    /\ \A a \in ClientAddrs : ~From_IpAddr_panics(a.ip) /\ ~From_u16_panics(a.port)

\* Ids issued to an IPv6 endpoint with the largest port and to an IPv4 one.
C10_Witness ==
    /\ last.op = "connect"
    /\ held.op = "connect"
    /\ last.addr.ip.family = "V6"
    /\ last.addr.port = 65535
    /\ held.addr.ip.family = "V4"

\* The remainder of a u64 divided by a natural number below 2^15.
rem_u64(t, d) == ((((((t[4] % d) * Limb + t[3]) % d) * Limb + t[2]) % d) * Limb + t[1]) % d

\* The decimal digits of a u64, most significant first.
RECURSIVE Decimal(_)
Decimal(t) ==
    IF t[4] = 0 /\ t[3] = 0 /\ t[2] = 0 /\ t[1] < 10 THEN << t[1] >>
    ELSE Append(Decimal(div_u64(t, 10)), rem_u64(t, 10))

\* test_pre_calculate_value: 32 zero bytes, 127.0.0.1:8080, 946684800.
PreCalculatedInput ==
    /\ vec.op = "connect"
    /\ vec.secret = Zeros(32)
    /\ vec.addr = SocketAddr(V4(127, 0, 0, 1), 8080)
    /\ vec.now = U64(946684800)

SavedDefault == TomlFile(toml_to_string(Configuration_default))

\* The last call is a load_from_file on a path where no file was.
LoadedMissing == loaded.op = "load_from_file" /\ loaded.before = Absent

\* The last call is the next load_from_file on a path where the call before
\* it found no file and wrote one.
LoadedAfterCreate ==
    /\ loaded.op = "load_from_file"
    /\ loaded.previous.op = "load_from_file"
    /\ loaded.previous.path = loaded.path
    /\ loaded.previous.before = Absent
    /\ loaded.before # Absent

\* The last call is a load_from_file on a path that holds the saved default
\* configuration.
LoadedSavedDefault == loaded.op = "load_from_file" /\ loaded.before = SavedDefault

\* The last call returned Ok(Configuration::default()).
ReturnedDefault ==
    loaded.result = "Ok" /\ loaded.value = Some(Configuration_default)

\* C12, as stated: load_from_file on a path with no file returns Err and,
\* when the write succeeds, leaves the default configuration there; the next
\* load_from_file on that path returns Ok(Configuration::default()); on a
\* path that holds the saved default configuration it returns
\* Ok(Configuration::default()) and does not rewrite the file.
C12_CreateThenLoadAnyPath ==
    /\ LoadedMissing =>
           /\ loaded.result = "Err" /\ loaded.value = None
           /\ loaded.write_ok => files[loaded.path] = SavedDefault
    /\ LoadedAfterCreate => ReturnedDefault
    /\ LoadedSavedDefault => ReturnedDefault /\ files[loaded.path] = loaded.before

\* C12, amended: load_from_file on a path with no file returns Err and,
\* when the write succeeds, leaves the default configuration there; the next
\* load_from_file on that path, and a load_from_file on a path that holds
\* the saved default configuration, returns Ok(Configuration::default()) when
\* the extension of the path is toml, and Err when the extension has no
\* registered format; load_from_file never rewrites a file that exists.
C12_CreateThenLoadTomlPath ==
    /\ LoadedMissing =>
           /\ loaded.result = "Err" /\ loaded.value = None
           /\ loaded.write_ok => files[loaded.path] = SavedDefault
           /\ ~loaded.write_ok => files[loaded.path] = Absent
    /\ (LoadedAfterCreate \/ LoadedSavedDefault) =>
           /\ loaded.before = SavedDefault
           /\ loaded.path.extension = "toml" => ReturnedDefault
           /\ File_with_name(loaded.path) = None =>
                  loaded.result = "Err" /\ loaded.value = None
    /\ (loaded.op = "load_from_file" /\ loaded.before # Absent) =>
           files[loaded.path] = loaded.before

\* A load_from_file found no file at a toml path and wrote one, and the
\* next load_from_file on that path returned the default configuration.
C12_Witness ==
    /\ LoadedAfterCreate
    /\ loaded.path.extension = "toml"
    /\ loaded.before = TomlFile(default_config_toml)
    /\ ReturnedDefault
    /\ files[loaded.path] = loaded.before

====
